---- MODULE Spec2Model ----
(***************************************************************************)
(* A model of src/utils_llm.py: chat_api, extract_python_code and          *)
(* chat_with_data_api.  Strings the code inspects (message contents, the   *)
(* model's response, the extracted code) are sequences of one-character    *)
(* strings, so that lower(), the in test, re.findall and str.replace are *)
(* computed character by character.  Strings the code only passes on (the  *)
(* returned texts, the agent's output) are TLA+ strings.                   *)
(*                                                                         *)
(* External calls that can fail (the OpenAI client, the completion         *)
(* request, the LangChain constructors, the agent, exec of generated code) *)
(* either succeed or raise; Streamlit's display calls do not raise.        *)
(***************************************************************************)
EXTENDS Integers, Sequences, FiniteSets, TLC

VARIABLES
    heap,       \* the two list objects: st.session_state.messages and another list
    fn,         \* the function being run (or last run)
    arg,        \* chat_api's messages argument: which list object it is
    pc,         \* position inside the running function
    plot_flag,  \* outcome of the keyword test
    step_prompts, \* chat_with_data_api's local list of that name
    sent,       \* the messages= list of the completion request
    response,   \* content of the completion's first choice
    code,       \* result of extract_python_code
    written,    \* argument of st.write on the plot path
    executed,   \* argument of exec
    answer,     \* what the dataframe agent returned
    log,        \* the external effects of the running call, in order
    result,     \* how the call ended: a return value or a propagated exception
    raised,     \* the exception an external call of the running call raised, if any
    entry,      \* the list objects as they were when the call started
    nplot       \* per list object: chat_api calls made with it on a plot request

vars == <<heap, fn, arg, pc, plot_flag, step_prompts, sent, response, code, written,
          executed, answer, log, result, raised, entry, nplot>>

------------------------------------------------------------------------------
(* Bounds *)

\* longest message list the model lets a list object grow to
MaxMsgs == 3
\* longest text, in segments, given to extract_python_code on its own
MaxSegs == 5

------------------------------------------------------------------------------
(* Character data *)

\* the backquote character U+0060, which a TLA+ string literal cannot hold
BT == "backquote"
Fence == <<BT, BT, BT>>
Py == <<"p", "y", "t", "h", "o", "n">>
FigShow == <<"f", "i", "g", ".", "s", "h", "o", "w", "(", ")">>
PlotlyChart == <<"s", "t", ".", "p", "l", "o", "t", "l", "y", "_", "c", "h", "a", "r", "t", "(", "f", "i", "g", ",", " ", "t", "h", "e", "m", "e", "=", "'", "s", "t", "r", "e", "a", "m", "l", "i", "t", "'", ",", " ", "u", "s", "e", "_", "c", "o", "n", "t", "a", "i", "n", "e", "r", "_", "w", "i", "d", "t", "h", "=", "T", "r", "u", "e", ")">>
UpperLetters == <<"A", "B", "C", "D", "E", "F", "G", "H", "I", "J", "K", "L", "M", "N", "O", "P", "Q", "R", "S", "T", "U", "V", "W", "X", "Y", "Z">>
LowerLetters == <<"a", "b", "c", "d", "e", "f", "g", "h", "i", "j", "k", "l", "m", "n", "o", "p", "q", "r", "s", "t", "u", "v", "w", "x", "y", "z">>
\* the characters \s matches among those the model's texts use
Whitespace == {" ", "\n", "\t"}

Keywords == { <<"p", "l", "o", "t">>, <<"g", "r", "a", "p", "h">>,
              <<"d", "r", "a", "w">>, <<"c", "h", "a", "r", "t">> }

\* code_prompt, cut down to its keyword-bearing word and its format part:
\* "plotly " + fence + "python <code>" + fence
code_prompt == <<"p", "l", "o", "t", "l", "y", " ", BT, BT, BT, "p", "y", "t", "h", "o", "n", " ", "<", "c", "o", "d", "e", ">", BT, BT, BT>>

CodePromptMsg == [role |-> "assistant", content |-> code_prompt]

------------------------------------------------------------------------------
(* String operations *)

\* pat occurs in s at position i
IsAt(s, i, pat) ==
    /\ i >= 1
    /\ i + Len(pat) - 1 <= Len(s)
    /\ \A k \in 1..Len(pat) : s[i + k - 1] = pat[k]

\* Python's (pat in s)
Contains(s, pat) == \E i \in 1..(Len(s) - Len(pat) + 1) : IsAt(s, i, pat)

LowerChar(c) ==
    IF \E k \in 1..26 : UpperLetters[k] = c
    THEN LowerLetters[CHOOSE k \in 1..26 : UpperLetters[k] = c]
    ELSE c

\* str.lower()
\* (variant: the letter case is kept)
NoLower(s) == s

str_lower(s) == [i \in 1..Len(s) |-> LowerChar(s[i])]

None == [some |-> FALSE, val |-> <<>>]
Some(v) == [some |-> TRUE, val |-> v]

\* the lazy group (.*?) followed by the fence: the first position from j on where
\* the closing fence matches, 0 when there is none
RECURSIVE LazyClose(_, _)
\* (variant: a greedy group, closed by the last fence)
GreedyClose(text, j) ==
    LET ends == {k \in j..Len(text) : IsAt(text, k, Fence)}
    IN  IF ends = {} THEN 0 ELSE CHOOSE k \in ends : \A m \in ends : m <= k

LazyClose(text, j) ==
    IF j + Len(Fence) - 1 > Len(text) THEN 0
    ELSE IF IsAt(text, j, Fence) THEN j
    ELSE LazyClose(text, j + 1)

\* the pattern fence python \s (.*?) fence, tried at position i (re.DOTALL: the group
\* runs over newlines): whether it matches, its group, and where the match ends
MatchAt(text, i) ==
    LET g == i + Len(Fence) + Len(Py) + 1
    IN  IF /\ IsAt(text, i, Fence \o Py)
           /\ g - 1 <= Len(text)
           /\ text[g - 1] \in Whitespace
        THEN LET j == LazyClose(text, g)
             IN  IF j = 0 THEN [ok |-> FALSE, group |-> <<>>, end |-> i]
                 ELSE [ok |-> TRUE, group |-> SubSeq(text, g, j - 1),
                       end |-> j + Len(Fence)]
        ELSE [ok |-> FALSE, group |-> <<>>, end |-> i]

\* re.findall(pattern, text, re.DOTALL) from position i on: the groups of the
\* non-overlapping matches, left to right
RECURSIVE re_findall(_, _)
re_findall(text, i) ==
    IF i > Len(text) THEN <<>>
    ELSE LET m == MatchAt(text, i)
         IN  IF m.ok THEN <<m.group>> \o re_findall(text, m.end)
             ELSE re_findall(text, i + 1)

\* (variant: the whole text when nothing matches)
ExtractOrWhole(text) ==
    LET matches == re_findall(text, 1)
    IN  IF matches = <<>> THEN Some(text) ELSE Some(matches[1])

extract_python_code(text) ==
    LET matches == re_findall(text, 1)
    IN  IF matches = <<>> THEN None ELSE Some(matches[1])

\* str.replace(old, new): the non-overlapping occurrences, left to right
RECURSIVE ReplaceFrom(_, _, _, _)
ReplaceFrom(s, old, new, i) ==
    IF i > Len(s) THEN <<>>
    ELSE IF IsAt(s, i, old) THEN new \o ReplaceFrom(s, old, new, i + Len(old))
    ELSE <<s[i]>> \o ReplaceFrom(s, old, new, i + 1)

str_replace(s, old, new) == ReplaceFrom(s, old, new, 1)

\* the keyword test of chat_api and chat_with_data_api, on the list that
\* st.session_state.messages is
\* (variant: the first message instead of the last)
IsPlotRequestFirst(messages) ==
    \E kw \in Keywords : Contains(str_lower(messages[1].content), kw)

IsPlotRequest(messages) ==
    \E kw \in Keywords :
        Contains(str_lower(messages[Len(messages)].content), kw)

\* code = code.replace("fig.show()", ""); code += "st.plotly_chart(...)"
\* (variant: fig.show() is left in)
PlotCodeKeepShow(c) == c \o PlotlyChart

PlotCode(c) == str_replace(c, FigShow, <<>>) \o PlotlyChart

\* the f-string, fence then {code}, given to st.write
WriteArg(c) == Fence \o c

------------------------------------------------------------------------------
(* Data the calls are run on *)

cDraw == <<"D", "r", "a", "w">>
cCharts == <<"c", "h", "a", "r", "t", "s">>
cMean == <<"m", "e", "a", "n">>
cGrap == <<"g", "r", "a", "p", " ", "h">>

\* messages the caller puts into a list: role/content records
Pool == { [role |-> "user", content |-> cDraw],
          [role |-> "user", content |-> cMean],
          [role |-> "assistant", content |-> cCharts],
          [role |-> "assistant", content |-> cGrap] }

Lists == {"session", "other"}

Last(q) == q[Len(q)]
Count(q, x) == Cardinality({i \in 1..Len(q) : q[i] = x})

\* the contents above, and code_prompt, that hold one of the four keywords
\* in some letter case
PlotContents == {cDraw, cCharts, code_prompt}

NL == <<"\n">>
SP == <<" ">>
\* contents the completion endpoint may answer with
rPlain == <<"o", "k">>
rCutOff == Fence \o Py \o NL \o <<"f", "i", "g">>
rNoSpace == Fence \o Py \o <<"3">> \o <<"f", "i", "g">> \o Fence
rBlock == Fence \o Py \o NL \o <<"f", "i", "g", "=", "1">> \o NL \o FigShow \o NL \o Fence
rTwoBlocks == <<"a">> \o Fence \o Py \o SP \o <<"f", "i", "g">> \o Fence \o <<"b">>
              \o Fence \o Py \o SP \o FigShow \o Fence
rNested == Fence \o Py \o SP \o FigShow \o <<"f", "i", "g", ".">> \o FigShow
           \o <<"s", "h", "o", "w", "(", ")">> \o Fence
rEmpty == Fence \o Py \o SP \o Fence

Responses == {rPlain, rCutOff, rNoSpace, rBlock, rTwoBlocks, rNested, rEmpty}

\* what the dataframe agent may return: its output, and whether the last
\* intermediate step is absent, carries tool_input["query"], or does not
AgentAnswers == [output : {"42"}, steps : {"none", "query", "malformed"}]
NoAnswer == [output |-> "", steps |-> "none"]

\* what the agent call and exec of generated code may raise
ExcKinds == {"OutputParserException", "Exception", "KeyboardInterrupt"}
\* what a constructor or the completion request may raise
SetupExc == {"Exception"}

OPE_MSG == "OutputParserException error occured in LangChain agent.\n                Refine your query."
UNKNOWN_MSG == "Unknown error occured in LangChain agent. Refine your query"
COMPLETE_MSG == "Complete."
NOPLOT_MSG == "Couldn't plot the data"
\* chat_api returns the response's message object
RESPONSE_MESSAGE == "response.choices[0].message"

NoResult == [kind |-> "none", val |-> ""]
Return(v) == [kind |-> "return", val |-> v]
Propagate(e) == [kind |-> "raise", val |-> e]

------------------------------------------------------------------------------
(* The state machine *)

Init ==
    /\ heap \in [Lists -> {<<m>> : m \in Pool}]
    /\ fn = "none"
    /\ arg = "none"
    /\ pc = "idle"
    /\ plot_flag = FALSE
    /\ step_prompts = <<>>
    /\ sent = <<>>
    /\ response = <<>>
    /\ code = None
    /\ written = <<>>
    /\ executed = <<>>
    /\ answer = NoAnswer
    /\ log = <<>>
    /\ result = NoResult
    /\ raised = "none"
    /\ entry = heap
    /\ nplot = [l \in Lists |-> 0]

\* a call starts: its locals are fresh
Start(f, a, at) ==
    /\ pc \in {"idle", "done"}
    /\ fn' = f
    /\ arg' = a
    /\ pc' = at
    /\ plot_flag' = FALSE
    /\ step_prompts' = <<>>
    /\ sent' = <<>>
    /\ response' = <<>>
    /\ code' = None
    /\ written' = <<>>
    /\ executed' = <<>>
    /\ answer' = NoAnswer
    /\ log' = <<>>
    /\ result' = NoResult
    /\ raised' = "none"

\* the caller appends a message to st.session_state.messages between calls
UserMessage ==
    /\ Len(heap.session) < MaxMsgs
    /\ \E m \in Pool : heap' = [heap EXCEPT !.session = Append(@, m)]
    /\ Start("none", "none", "idle")
    /\ entry' = heap'
    /\ UNCHANGED nplot

\* an exception leaves the function
\* (variant: caught as in the try block)
RaiseCaught(e) ==
    /\ raised' = e
    /\ result' = Return(UNKNOWN_MSG)
    /\ pc' = "done"

Raise(e) ==
    /\ raised' = e
    /\ result' = Propagate(e)
    /\ pc' = "done"

(* chat_with_data_api *)

CallChatWithDataApi ==
    /\ Start("chat_with_data_api", "df", "client")
    /\ entry' = heap
    /\ UNCHANGED <<heap, nplot>>

\* client = openai()
MakeClient ==
    /\ pc = "client"
    /\ \/ pc' = "branch" /\ UNCHANGED <<result, raised>>
       \/ \E e \in SetupExc : Raise(e)
    /\ UNCHANGED <<heap, fn, arg, plot_flag, step_prompts, sent, response, code,
                   written, executed, answer, log, entry, nplot>>

\* step_prompts = st.session_state.messages.copy(); step_prompts.append(...)
\* (variant: no copy, the session list itself is appended to)
AliasAndAppend(h) ==
    [heap |-> [h EXCEPT !.session = Append(@, CodePromptMsg)],
     step_prompts |-> Append(h.session, CodePromptMsg)]

CopyAndAppend(h) ==
    [heap |-> h, step_prompts |-> Append(h.session, CodePromptMsg)]

\* the if of line 94 and, on the plot side, the building of step_prompts
Branch ==
    /\ pc = "branch"
    /\ IF IsPlotRequest(heap.session)
       THEN LET r == CopyAndAppend(heap)
            IN  /\ plot_flag' = TRUE
                /\ heap' = r.heap
                /\ step_prompts' = r.step_prompts
                /\ pc' = "request"
       ELSE /\ pc' = "llm"
            /\ UNCHANGED <<plot_flag, heap, step_prompts>>
    /\ UNCHANGED <<fn, arg, sent, response, code, written, executed, answer,
                   log, result, raised, entry, nplot>>

\* client.chat.completions.create(messages=step_prompts, ...)
\* (variant: a failed request is made once more)
RequestAgainOnError ==
    /\ pc = "request"
    /\ sent' = step_prompts
    /\ log' = Append(log, "request")
    /\ \/ \E r \in Responses :
             response' = r /\ pc' = "post" /\ UNCHANGED <<result, raised>>
       \/ \E e \in SetupExc :
             IF Count(log, "request") = 0
             THEN raised' = e /\ UNCHANGED <<pc, result, response>>
             ELSE Raise(e) /\ UNCHANGED response
    /\ UNCHANGED <<heap, fn, arg, plot_flag, step_prompts, code, written,
                   executed, answer, entry, nplot>>

Request ==
    /\ pc = "request"
    /\ sent' = step_prompts
    /\ log' = Append(log, "request")
    /\ \/ \E r \in Responses :
             response' = r /\ pc' = "post" /\ UNCHANGED <<result, raised>>
       \/ \E e \in SetupExc : Raise(e) /\ UNCHANGED response
    /\ UNCHANGED <<heap, fn, arg, plot_flag, step_prompts, code, written,
                   executed, answer, entry, nplot>>

\* extract_python_code and what follows it up to st.write; ret is what is
\* returned when no code was found
PostProcess(ret, next) ==
    LET c == extract_python_code(response)
    IN  IF ~c.some
        THEN /\ code' = c
             /\ log' = Append(log, "warning")
             /\ result' = Return(ret)
             /\ pc' = "done"
             /\ UNCHANGED written
        ELSE /\ code' = Some(PlotCode(c.val))
             /\ written' = WriteArg(code'.val)
             /\ log' = Append(log, "write")
             /\ pc' = next
             /\ UNCHANGED result

Post ==
    /\ pc = "post"
    /\ PostProcess(NOPLOT_MSG, "exec")
    /\ UNCHANGED <<heap, fn, arg, plot_flag, step_prompts, sent, response,
                   executed, answer, raised, entry, nplot>>

\* exec(code), then the return that follows it
RunCode(ret) ==
    /\ executed' = code.val
    /\ log' = Append(log, "exec")
    /\ \/ result' = Return(ret) /\ pc' = "done" /\ UNCHANGED raised
       \/ \E e \in ExcKinds : Raise(e)

Exec ==
    /\ pc = "exec"
    /\ RunCode(COMPLETE_MSG)
    /\ UNCHANGED <<heap, fn, arg, plot_flag, step_prompts, sent, response, code,
                   written, answer, entry, nplot>>

\* llm = ChatOpenAI(...)
MakeLLM ==
    /\ pc = "llm"
    /\ log' = Append(log, "llm_build")
    /\ \/ pc' = "agent" /\ UNCHANGED <<result, raised>>
       \/ \E e \in SetupExc : Raise(e)
    /\ UNCHANGED <<heap, fn, arg, plot_flag, step_prompts, sent, response, code,
                   written, executed, answer, entry, nplot>>

\* pandas_df_agent = create_pandas_dataframe_agent(...)
MakeAgent ==
    /\ pc = "agent"
    /\ log' = Append(log, "agent_build")
    /\ \/ pc' = "invoke" /\ UNCHANGED <<result, raised>>
       \/ \E e \in SetupExc : Raise(e)
    /\ UNCHANGED <<heap, fn, arg, plot_flag, step_prompts, sent, response, code,
                   written, executed, answer, entry, nplot>>

\* the two except clauses
\* (variant: except Exception in place of the bare except)
HandleExceptionOnly(e) ==
    IF e = "OutputParserException" THEN Return(OPE_MSG)
    ELSE IF e = "KeyboardInterrupt" THEN Propagate(e)
    ELSE Return(UNKNOWN_MSG)

Handle(e) ==
    IF e = "OutputParserException" THEN Return(OPE_MSG)
    ELSE Return(UNKNOWN_MSG)

\* an exception raised inside the try block
RaiseInTry(e) ==
    /\ raised' = e
    /\ result' = Handle(e)
    /\ pc' = "done"

\* answer = pandas_df_agent(st.session_state.messages, callbacks=[...])
Invoke ==
    /\ pc = "invoke"
    /\ log' = Append(log, "agent_call")
    /\ \/ \E a \in AgentAnswers :
             answer' = a /\ pc' = "display" /\ UNCHANGED <<result, raised>>
       \/ \E e \in ExcKinds : RaiseInTry(e) /\ UNCHANGED answer
    /\ UNCHANGED <<heap, fn, arg, plot_flag, step_prompts, sent, response, code,
                   written, executed, entry, nplot>>

\* the display of the last intermediate step and of the output, and the return
Display ==
    /\ pc = "display"
    /\ IF answer.steps = "malformed"
       THEN RaiseInTry("Exception") /\ UNCHANGED log
       ELSE /\ log' = Append(log, "show")
            /\ result' = Return(answer.output)
            /\ pc' = "done"
            /\ UNCHANGED raised
    /\ UNCHANGED <<heap, fn, arg, plot_flag, step_prompts, sent, response, code,
                   written, executed, answer, entry, nplot>>

(* chat_api *)

\* messages.append(m), on the list object the name messages refers to
\* (variant: the append lands on a copy)
ListAppendToCopy(h, l, m) == h

ListAppend(h, l, m) == [h EXCEPT ![l] = Append(@, m)]

CallChatApi ==
    \E a \in Lists :
        /\ Len(heap[a]) < MaxMsgs
        /\ Start("chat_api", a, "api_branch")
        /\ entry' = heap
        /\ nplot' = [nplot EXCEPT
                        ![a] = @ + IF Last(heap.session).content \in PlotContents
                                   THEN 1 ELSE 0]
        /\ UNCHANGED heap

\* the keyword test and messages.append(...)
ApiBranch ==
    /\ pc = "api_branch"
    /\ IF IsPlotRequest(heap.session)
       THEN /\ plot_flag' = TRUE
            /\ heap' = ListAppend(heap, arg, CodePromptMsg)
       ELSE UNCHANGED <<plot_flag, heap>>
    /\ pc' = "api_request"
    /\ UNCHANGED <<fn, arg, step_prompts, sent, response, code, written,
                   executed, answer, log, result, raised, entry, nplot>>

\* openai.chat.completions.create(messages=messages, ...)
ApiRequest ==
    /\ pc = "api_request"
    /\ sent' = heap[arg]
    /\ log' = Append(log, "request")
    /\ \/ \E r \in Responses :
             response' = r /\ pc' = "api_post" /\ UNCHANGED <<result, raised>>
       \/ \E e \in SetupExc : Raise(e) /\ UNCHANGED response
    /\ UNCHANGED <<heap, fn, arg, plot_flag, step_prompts, code, written,
                   executed, answer, entry, nplot>>

\* the if plot_flag block up to st.write, or the return when it is skipped
ApiPost ==
    /\ pc = "api_post"
    /\ IF plot_flag
       THEN PostProcess(RESPONSE_MESSAGE, "api_exec")
       ELSE /\ result' = Return(RESPONSE_MESSAGE)
            /\ pc' = "done"
            /\ UNCHANGED <<code, written, log>>
    /\ UNCHANGED <<heap, fn, arg, plot_flag, step_prompts, sent, response,
                   executed, answer, raised, entry, nplot>>

ApiExec ==
    /\ pc = "api_exec"
    /\ RunCode(RESPONSE_MESSAGE)
    /\ UNCHANGED <<heap, fn, arg, plot_flag, step_prompts, sent, response, code,
                   written, answer, entry, nplot>>

Next ==
    \/ UserMessage
    \/ CallChatWithDataApi
    \/ MakeClient
    \/ Branch
    \/ Request
    \/ Post
    \/ Exec
    \/ MakeLLM
    \/ MakeAgent
    \/ Invoke
    \/ Display
    \/ CallChatApi
    \/ ApiBranch
    \/ ApiRequest
    \/ ApiPost
    \/ ApiExec

Spec == Init /\ [][Next]_vars

------------------------------------------------------------------------------
(* extract_python_code on its own, over every text of up to MaxSegs segments *)

Open == Fence \o Py \o SP
Segments == {Open, Fence, <<BT>>, Py, NL, <<"x">>}

RECURSIVE TextsOf(_)
TextsOf(n) ==
    IF n = 0 THEN {<<>>}
    ELSE {t \o g : t \in TextsOf(n - 1), g \in Segments}

Texts == UNION {TextsOf(n) : n \in 0..MaxSegs}

InitExtract ==
    /\ response \in Texts
    /\ heap = [l \in Lists |-> <<[role |-> "user", content |-> cMean]>>]
    /\ fn = "extract_python_code"
    /\ arg = "text"
    /\ pc = "extract"
    /\ plot_flag = FALSE
    /\ step_prompts = <<>>
    /\ sent = <<>>
    /\ code = None
    /\ written = <<>>
    /\ executed = <<>>
    /\ answer = NoAnswer
    /\ log = <<>>
    /\ result = NoResult
    /\ raised = "none"
    /\ entry = heap
    /\ nplot = [l \in Lists |-> 0]

ExtractCall ==
    /\ pc = "extract"
    /\ code' = extract_python_code(response)
    /\ pc' = "extracted"
    /\ UNCHANGED <<heap, fn, arg, plot_flag, step_prompts, sent, response,
                   written, executed, answer, log, result, raised, entry, nplot>>

SpecExtract == InitExtract /\ [][ExtractCall]_vars

------------------------------------------------------------------------------
(* What the properties are stated with *)

Range(q) == {q[i] : i \in 1..Len(q)}
Min(S) == CHOOSE x \in S : \A y \in S : x <= y
\* position of the first x in q
IndexOf(q, x) == Min({i \in 1..Len(q) : q[i] = x})

\* positions where the opening fence, python and a whitespace character stand
Opens(text) ==
    {i \in 1..Len(text) :
        /\ IsAt(text, i, Fence \o Py)
        /\ i + 9 <= Len(text)
        /\ text[i + 9] \in Whitespace}
\* positions of a fence after the opening at i
Closes(text, i) == {j \in (i + 10)..Len(text) : IsAt(text, j, Fence)}
\* openings that some later fence closes
Blocks(text) == {i \in Opens(text) : Closes(text, i) # {}}
\* the text between the first opening and the next fence after it
FirstBlock(text) ==
    LET i == Min(Opens(text))
    IN  SubSeq(text, i + 10, Min(Closes(text, i)) - 1)

\* s without the characters that lie in an occurrence of fig.show()
Covered(s) ==
    {k \in 1..Len(s) :
        \E i \in 1..Len(s) : IsAt(s, i, FigShow) /\ i <= k /\ k < i + Len(FigShow)}
WithoutFigShow(s) ==
    LET keep == (1..Len(s)) \ Covered(s)
    IN  [n \in 1..Cardinality(keep) |->
            s[CHOOSE k \in keep : Cardinality({m \in keep : m <= k}) = n]]

CountPrompts(q) == Count(q, CodePromptMsg)

Done(f) == fn = f /\ pc = "done"
\* chat_with_data_api entered its try block: the agent call is its first
\* statement that can raise
InTry == fn = "chat_with_data_api" /\ "agent_call" \in Range(log)
\* the keyword test of the running call has been made
Decided ==
    \/ /\ fn = "chat_with_data_api"
       /\ \/ pc \in {"request", "post", "exec", "llm", "agent", "invoke", "display"}
          \/ pc = "done" /\ log # <<>>
    \/ fn = "chat_api" /\ pc # "api_branch"
\* the last session message, as the call found it, is a plot request
PlotAsked == Last(entry.session).content \in PlotContents

------------------------------------------------------------------------------
(* Properties *)

\* C1: once chat_with_data_api is inside its try block (agent path), the call
\* ends in a returned string whatever is raised there: the agent's output when
\* nothing is raised, the OutputParserException text for that exception, the
\* unknown-error text for any other exception; nothing propagates.
C1_TryAlwaysReturns ==
    (Done("chat_with_data_api") /\ InTry) =>
        /\ result.kind = "return"
        /\ raised = "none" => result.val = answer.output
        /\ raised = "OutputParserException" => result.val = OPE_MSG
        /\ raised \notin {"none", "OutputParserException"} =>
               result.val = UNKNOWN_MSG

\* the display step raised after the agent answered, and a string came back
C1_Witness ==
    /\ Done("chat_with_data_api") /\ InTry
    /\ answer.steps = "malformed"
    /\ raised = "Exception"
    /\ result = Return(UNKNOWN_MSG)

C3_NoRetry ==
    /\ Count(log, "request") <= 1
    /\ Count(log, "agent_call") <= 1
    /\ (pc = "done" /\ raised # "none") =>
           Count(log, "request") + Count(log, "agent_call") <= 1

\* the completion request raised and the call ended after that one request
C3_Witness ==
    /\ Done("chat_with_data_api")
    /\ raised # "none"
    /\ log = <<"request">>

\* C4: chat_with_data_api leaves every list object, the session list
\* included, as it found it, and what it sends is the session list followed by
\* the one code-prompt message.
C4_SessionUntouched ==
    fn = "chat_with_data_api" =>
        /\ heap = entry
        /\ "request" \in Range(log) =>
               /\ sent = Append(heap.session, CodePromptMsg)
               /\ CountPrompts(sent) = CountPrompts(heap.session) + 1

\* a plot call on a session of two messages has sent three and is over
C4_Witness ==
    /\ Done("chat_with_data_api")
    /\ "exec" \in Range(log)
    /\ Len(heap.session) = 2
    /\ Len(sent) = 3

\* C5: extract_python_code returns None when no opening (fence, python, a
\* whitespace character) is closed by a later fence, and otherwise the text
\* between the first opening and the next fence after it.
C5_FirstBlockOnly ==
    pc = "extracted" =>
        IF Blocks(response) = {} THEN code = None
        ELSE code = Some(FirstBlock(response))

\* a text with two closed openings, the first block holding a newline
C5_Witness ==
    /\ pc = "extracted"
    /\ Cardinality(Blocks(response)) >= 2
    /\ code.some
    /\ "\n" \in Range(code.val)

\* C6 (as claimed): on the plot path of chat_with_data_api, no block found
\* means a warning, no exec and the could-not-plot text; a block found means
\* one exec and the text Complete.
C6_ExecThenComplete ==
    (Done("chat_with_data_api") /\ Range(log) \cap {"warning", "write"} # {}) =>
        IF Blocks(response) = {}
        THEN /\ "warning" \in Range(log)
             /\ "exec" \notin Range(log)
             /\ result = Return(NOPLOT_MSG)
        ELSE /\ Count(log, "exec") = 1
             /\ result = Return(COMPLETE_MSG)

\* C6 (amended): as claimed, but with a block found the call returns
\* Complete. only if the one exec did not raise, and otherwise the exception
\* propagates; in chat_api too exec is reached only with a block found.
C6_ExecOnlyWithBlock ==
    /\ "exec" \in Range(log) => Blocks(response) # {}
    /\ (Done("chat_with_data_api") /\ Range(log) \cap {"warning", "write"} # {}) =>
           IF Blocks(response) = {}
           THEN /\ "warning" \in Range(log)
                /\ "exec" \notin Range(log)
                /\ result = Return(NOPLOT_MSG)
           ELSE /\ Count(log, "exec") = 1
                /\ "warning" \notin Range(log)
                /\ result = IF raised = "none" THEN Return(COMPLETE_MSG)
                            ELSE Propagate(raised)

\* a block was found, run once, and Complete. returned
C6_Witness ==
    /\ Done("chat_with_data_api")
    /\ Blocks(response) # {}
    /\ Count(log, "exec") = 1
    /\ result = Return(COMPLETE_MSG)

\* C7: in both functions the request is a plot request exactly when the
\* content of the last message of st.session_state.messages holds a keyword in
\* some letter case; earlier messages, roles and chat_api's argument play no part.
C7_PlotDecision ==
    Decided => (plot_flag <=> PlotAsked)

\* chat_api, given another list ending in a plain message, decides plot from
\* an assistant message that follows a plain one in the session list
C7_Witness ==
    /\ fn = "chat_api" /\ arg = "other" /\ Decided
    /\ plot_flag
    /\ Last(entry.other).content = cMean
    /\ Len(entry.session) >= 2
    /\ entry.session[1].content = cMean
    /\ Last(entry.session).role = "assistant"

\* C8: what exec is given is the extracted block without any fig.show()
\* followed by the st.plotly_chart call; st.write was given that same code
\* (after the fence of its f-string) and was called before exec.
C8_ShownThenExecuted ==
    "exec" \in Range(log) =>
        /\ executed = WithoutFigShow(FirstBlock(response)) \o PlotlyChart
        /\ written = Fence \o executed
        /\ "write" \in Range(log)
        /\ IndexOf(log, "write") < IndexOf(log, "exec")

\* code holding fig.show() was shown, then its execution raised
C8_Witness ==
    /\ Done("chat_with_data_api")
    /\ "exec" \in Range(log)
    /\ raised # "none"
    /\ Contains(FirstBlock(response), FigShow)
    /\ written = Fence \o executed

\* C9: chat_api appends one code-prompt message to the list it is given on a
\* plot request and leaves it alone otherwise, and touches no other list; so
\* a list holds as many code prompts as plot requests were made with it, and
\* they are all in what is sent.
C9_ChatApiMutates ==
    /\ (fn = "chat_api" /\ pc # "api_branch") =>
           /\ heap[arg] = IF PlotAsked THEN Append(entry[arg], CodePromptMsg)
                          ELSE entry[arg]
           /\ \A l \in Lists \ {arg} : heap[l] = entry[l]
           /\ "request" \in Range(log) => sent = heap[arg]
    /\ pc # "api_branch" => \A l \in Lists : CountPrompts(heap[l]) = nplot[l]

\* the second plot request made with the session list sends both prompts
C9_Witness ==
    /\ fn = "chat_api" /\ arg = "session"
    /\ "request" \in Range(log)
    /\ nplot.session = 2
    /\ CountPrompts(sent) = 2

\* C10: the two fixed error texts come back only from the try block of the
\* agent path; an exception raised anywhere else in chat_with_data_api
\* (client, completion request, exec, ChatOpenAI, agent construction)
\* propagates.
C10_ErrorTextsOnlyInTry ==
    /\ result.val \in {OPE_MSG, UNKNOWN_MSG} =>
           InTry /\ ~plot_flag /\ raised # "none"
    /\ (fn = "chat_with_data_api" /\ raised # "none" /\ ~InTry) =>
           result = Propagate(raised)

\* exec of the extracted code raised on the plot path and propagated
C10_Witness ==
    /\ Done("chat_with_data_api")
    /\ plot_flag
    /\ "exec" \in Range(log)
    /\ result = Propagate("OutputParserException")

====
